---- MODULE Spec2Model ----
(***************************************************************************)
(* A model of rsync_crack.py: the enumeration driver main(), the probe     *)
(* run_rsync(), the fetch download_rsync() and the writer save_results().  *)
(* Strings are tuples of one-character strings, so that concatenation,     *)
(* substring tests and strip() are computed as Python computes them.       *)
(***************************************************************************)
EXTENDS Integers, Sequences, FiniteSets, TLC

VARIABLES
    wordlist_file,    \* the file named by -w: missing, unreadable, or its lines
    extensions,       \* main's parameter: the normalized extension list
    exclude,          \* main's parameter: the exclude substrings
    download,         \* main's parameter: the -d flag
    down_rs_timeout,  \* main's parameter: None or a number of seconds
    down_rs_delay,    \* main's parameter: 0 or a number of seconds
    output_file,      \* main's parameter: None or a path
    output_format,    \* main's parameter
    pc,               \* position of main
    words,            \* main's local: the (filtered) entries
    origin,           \* ghost: origin[k] = line number of words[k] in the wordlist
    wi, ei,           \* the for-loops' positions in words and extensions
    path,             \* main's local: the current candidate
    result,           \* what subprocess.run does, when run_rsync is checked alone
    output,           \* main's local: the value run_rsync returned
    found_paths,      \* main's local
    total, pbar,      \* tqdm's total and its counter
    probed,           \* ghost: the calls of run_rsync, in order
    fetched,          \* ghost: the calls of download_rsync, in order
    sleeps,           \* ghost: the number of time.sleep calls
    saves,            \* ghost: the calls of save_results
    out_file,         \* the file at the output path
    logged            \* the lines the logger received during the latest step

vars == << wordlist_file, extensions, exclude, download, down_rs_timeout,
           down_rs_delay, output_file, output_format, pc, words, origin, wi, ei,
           path, result, output, found_paths, total, pbar, probed, fetched,
           sleeps, saves, out_file, logged >>

-----------------------------------------------------------------------------
(* Bounds of the model *)

\* the longest wordlist
MaxWords == 2
\* the longest stdout of a probe
MaxOut == 2

-----------------------------------------------------------------------------
(* Strings *)

Str1(c) == << c >>

IsSubstr(s, w) ==
    \E i \in 0..(Len(w) - Len(s)) : SubSeq(w, i + 1, i + Len(s)) = s

IsSpace(c) == c \in {" ", "\n"}

RECURSIVE LStrip(_)
LStrip(s) == IF s # << >> /\ IsSpace(Head(s)) THEN LStrip(Tail(s)) ELSE s

RECURSIVE RStrip(_)
RStrip(s) ==
    IF s # << >> /\ IsSpace(s[Len(s)]) THEN RStrip(SubSeq(s, 1, Len(s) - 1)) ELSE s

Strip(s) == RStrip(LStrip(s))

SeqsUpTo(S, n) == UNION { [1..k -> S] : k \in 0..n }

-----------------------------------------------------------------------------
(* Python values *)

None == "None"

\* an optional string: None, or a string
NoneStr == [isNone |-> TRUE, text |-> << >>]
SomeStr(t) == [isNone |-> FALSE, text |-> t]

\* truth value of an optional string: None and "" are false
Truthy(v) == ~v.isNone /\ v.text # << >>

\* a log record: the message template and the values interpolated in it
Line(msg, args) == [msg |-> msg, args |-> args]

-----------------------------------------------------------------------------
(* Inputs *)

\* the lines a wordlist is made of
Words == { <<"a">>, <<"b">> }
\* the -e arguments tried: none, one, and two that are not in sorted order
ExtensionArgs == { << >>, << <<"b">> >>, << <<".", "c">>, <<"b">> >> }
\* the --exclude arguments tried: "b" is a word and lies inside ".b"; "a." lies
\* in no word and spans the boundary of "a" and ".b"
ExcludeArgs == { << >>, << <<"b">> >>, << <<"a", ".">>, <<"b">> >> }
\* what a listing answers in a run of main: nothing, blanks, a line, padded or not
Listings == { << >>, <<" ">>, <<"x">>, <<" ", "x">>, <<"x", "\n">> }
\* the characters of the stdouts run_rsync is checked on when it is checked alone
OutChars == { " ", "x", "\n" }
Stderr == <<"e", "\n">>
\* line 193: the choices of --format
Formats == { "plain", "csv", "json" }

\* line 199: an extension lacking the leading dot gets one
NormalizeExt(ext) == IF ext # << >> /\ Head(ext) = "." THEN ext ELSE <<".">> \o ext

normalized_extensions(args) == [k \in 1..Len(args) |-> NormalizeExt(args[k])]

\* what subprocess.run can do: return with a zero status and some stdout, raise
\* CalledProcessError (check=True, non-zero status), raise TimeoutExpired (only
\* with a timeout), or raise something else (OSError, UnicodeDecodeError)
ProcResults(timeout, outs) ==
    { [status |-> "ok", stdout |-> o] : o \in outs }
    \cup { [status |-> s, stdout |-> << >>] :
             s \in {"nonzero", "oserror"} \cup (IF timeout # None THEN {"timeout"} ELSE {}) }

NoResult == [status |-> "none", stdout |-> << >>]

-----------------------------------------------------------------------------
(* run_rsync *)

\* run_rsync without the strip(): any non-empty stdout is returned
run_rsyncUnstripped(p, r) ==
    CASE r.status = "ok" ->
           [raised |-> FALSE, log |-> << >>,
            ret |-> IF r.stdout # << >> THEN SomeStr(r.stdout) ELSE NoneStr]
      [] r.status = "nonzero" ->
           [raised |-> FALSE, log |-> << Line("rsync_failed", << Strip(Stderr) >>) >>,
            ret |-> NoneStr]
      [] r.status = "timeout" ->
           [raised |-> FALSE, log |-> << Line("rsync_timeout", << p >>) >>,
            ret |-> NoneStr]
      [] OTHER ->
           [raised |-> TRUE, log |-> << >>, ret |-> NoneStr]

run_rsync(p, r) ==
    CASE r.status = "ok" ->
           [raised |-> FALSE, log |-> << >>,
            ret |-> IF Strip(r.stdout) # << >> THEN SomeStr(Strip(r.stdout)) ELSE NoneStr]
      [] r.status = "nonzero" ->
           [raised |-> FALSE, log |-> << Line("rsync_failed", << Strip(Stderr) >>) >>,
            ret |-> NoneStr]
      [] r.status = "timeout" ->
           [raised |-> FALSE, log |-> << Line("rsync_timeout", << p >>) >>,
            ret |-> NoneStr]
      [] OTHER ->
           [raised |-> TRUE, log |-> << >>, ret |-> NoneStr]

-----------------------------------------------------------------------------
(* download_rsync *)

\* mkdirOk: whether Path("downloads").mkdir(exist_ok=True) succeeds
download_rsync(p, mkdirOk, r) ==
    CASE ~mkdirOk -> [raised |-> TRUE, ran |-> FALSE, log |-> << >>]
      [] r.status = "ok" ->
           [raised |-> FALSE, ran |-> TRUE, log |-> << Line("download_ok", << p >>) >>]
      [] r.status = "nonzero" ->
           [raised |-> FALSE, ran |-> TRUE,
            log |-> << Line("download_failed", << p, Strip(Stderr) >>) >>]
      [] r.status = "timeout" ->
           [raised |-> FALSE, ran |-> TRUE, log |-> << Line("download_timeout", << p >>) >>]
      [] OTHER -> [raised |-> TRUE, ran |-> TRUE, log |-> << >>]

-----------------------------------------------------------------------------
(* save_results *)

NoFile == [exists |-> FALSE, rows |-> << >>]

CsvHeader == <<"P", "a", "t", "h">>

Serialize(fp, fmt) ==
    CASE fmt = "plain" -> fp
      [] fmt = "csv" -> << CsvHeader >> \o fp
      [] fmt = "json" -> << <<"{">> >> \o fp \o << <<"}">> >>

\* save_results without the early return of lines 85-86
save_resultsAlwaysWrites(fp, of, fmt, openOk, file) ==
    IF fmt \in {"plain", "csv", "json"}
    THEN IF openOk
         THEN [raised |-> FALSE, file |-> [exists |-> TRUE, rows |-> Serialize(fp, fmt)],
               log |-> << Line("saved", << Str1(of) >>) >>]
         ELSE [raised |-> TRUE, file |-> file, log |-> << >>]
    ELSE [raised |-> FALSE, file |-> file,
          log |-> << Line("unsupported_format", << Str1(fmt) >>),
                     Line("saved", << Str1(of) >>) >>]

\* save_results that writes the plain format when it does not know the format
save_resultsFallsBackToPlain(fp, of, fmt, openOk, file) ==
    IF of = None THEN [raised |-> FALSE, file |-> file, log |-> << >>]
    ELSE IF openOk
         THEN [raised |-> FALSE,
               file |-> [exists |-> TRUE,
                         rows |-> Serialize(fp, IF fmt \in {"plain", "csv", "json"}
                                                THEN fmt ELSE "plain")],
               log |-> (IF fmt \in {"plain", "csv", "json"} THEN << >>
                        ELSE << Line("unsupported_format", << Str1(fmt) >>) >>)
                       \o << Line("saved", << Str1(of) >>) >>]
         ELSE [raised |-> TRUE, file |-> file, log |-> << >>]

\* openOk: whether open(output_file, 'w') succeeds (FALSE: FileNotFoundError, the
\* directory of the path does not exist); file: the file before the call
save_results(fp, of, fmt, openOk, file) ==
    IF of = None THEN [raised |-> FALSE, file |-> file, log |-> << >>]
    ELSE IF fmt \in {"plain", "csv", "json"}
    THEN IF openOk
         THEN [raised |-> FALSE, file |-> [exists |-> TRUE, rows |-> Serialize(fp, fmt)],
               log |-> << Line("saved", << Str1(of) >>) >>]
         ELSE [raised |-> TRUE, file |-> file, log |-> << >>]
    ELSE [raised |-> FALSE, file |-> file,
          log |-> << Line("unsupported_format", << Str1(fmt) >>),
                     Line("saved", << Str1(of) >>) >>]

-----------------------------------------------------------------------------
(* main *)

\* Keep with any() in place of all()
KeepIfAnyAbsent(w, excl) == \E k \in 1..Len(excl) : ~IsSubstr(excl[k], w)

\* line 118: all(ex not in w for ex in exclude)
Keep(w, excl) == \A k \in 1..Len(excl) : ~IsSubstr(excl[k], w)

\* lines 116-118: the positions of the lines that survive the filter
RECURSIVE KeptLines(_, _, _)
KeptLines(lines, excl, k) ==
    IF k > Len(lines) THEN << >>
    ELSE IF excl = << >> \/ Keep(lines[k], excl)
         THEN << k >> \o KeptLines(lines, excl, k + 1)
         ELSE KeptLines(lines, excl, k + 1)

\* Total that counts the entries and not their variants
TotalOfEntries(ws, exts) == Len(ws)

\* line 122
Total(ws, exts) == Len(ws) * (IF exts # << >> THEN Len(exts) ELSE 1)

\* lines 142 and 153
Candidate(w, exts, e) == IF exts # << >> THEN w \o exts[e] ELSE w

\* NextPos without the inner loop: only the first extension of each entry
NextPosFirstExtOnly(w, e, exts) == << w + 1, 1 >>

\* lines 139-141: the loop position after (w, e)
NextPos(w, e, exts) ==
    IF exts # << >> /\ e < Len(exts) THEN << w, e + 1 >> ELSE << w + 1, 1 >>

\* Accumulate that keeps found_paths free of duplicates
AccumulateOnce(fp, p, out) ==
    IF Truthy(out) /\ ~(\E k \in 1..Len(fp) : fp[k] = p) THEN Append(fp, p) ELSE fp

\* lines 144-146 and 155-157
Accumulate(fp, p, out) == IF Truthy(out) THEN Append(fp, p) ELSE fp

\* ShouldFetch that forgets the download flag
ShouldFetchAnyHit(out, dl) == Truthy(out)

\* lines 144-148 and 155-159
ShouldFetch(out, dl) == Truthy(out) /\ dl

Config == << wordlist_file, extensions, exclude, download, down_rs_timeout,
             down_rs_delay, output_file, output_format >>

Locals == << words, origin, wi, ei, path, result, output, found_paths, total, pbar >>

Effects == << probed, fetched, sleeps, saves, out_file >>

InitRun ==
    /\ pc = "start"
    /\ words = << >> /\ origin = << >> /\ wi = 1 /\ ei = 1
    /\ path = << >> /\ result = NoResult /\ output = NoneStr
    /\ found_paths = << >> /\ total = 0 /\ pbar = 0
    /\ probed = << >> /\ fetched = << >> /\ sleeps = 0 /\ saves = << >>
    /\ out_file = NoFile /\ logged = << >>

Init ==
    /\ wordlist_file \in
         { [state |-> "missing", lines |-> << >>], [state |-> "unreadable", lines |-> << >>] }
         \cup { [state |-> "ok", lines |-> l] : l \in SeqsUpTo(Words, MaxWords) }
    /\ extensions \in { normalized_extensions(a) : a \in ExtensionArgs }
    /\ exclude \in ExcludeArgs
    /\ download \in BOOLEAN
    /\ down_rs_timeout \in { None, "5.0" }
    /\ down_rs_delay \in { 0, 1 }
    /\ output_file \in { None, "out" }
    /\ output_format \in Formats
    /\ InitRun

\* ReadFails with every failure caught by the FileNotFoundError clause
ReadFailsAllNotFound ==
    /\ pc = "start"
    /\ wordlist_file.state # "ok"
    /\ pc' = "except_FileNotFoundError"
    /\ logged' = << Line("wordlist_not_found", << >>) >>
    /\ UNCHANGED << Config, Locals, Effects >>

\* lines 112-113, 169-170, 173-174: open() and read() fail
ReadFails ==
    /\ pc = "start"
    /\ wordlist_file.state # "ok"
    /\ IF wordlist_file.state = "missing"
       THEN /\ pc' = "except_FileNotFoundError"
            /\ logged' = << Line("wordlist_not_found", << >>) >>
       ELSE /\ pc' = "except_Exception"
            /\ logged' = << Line("unknown_error", << >>) >>
    /\ UNCHANGED << Config, Locals, Effects >>

\* lines 112-136: the wordlist is read and filtered, the total computed
ReadWordlist ==
    /\ pc = "start"
    /\ wordlist_file.state = "ok"
    /\ LET kept == KeptLines(wordlist_file.lines, exclude, 1)
           ws == [k \in 1..Len(kept) |-> wordlist_file.lines[kept[k]]]
       IN /\ words' = ws
          /\ origin' = kept
          /\ total' = Total(ws, extensions)
          /\ logged' = (IF exclude # << >> THEN << Line("filtered", << >>) >> ELSE << >>)
                       \o << Line("banner", << >>) >>
          /\ pc' = IF ws = << >> THEN "save" ELSE "probe"
    /\ found_paths' = << >>
    /\ wi' = 1 /\ ei' = 1
    /\ UNCHANGED << Config, path, result, output, pbar, Effects >>

\* lines 142-146 (153-157): the candidate is built and probed; a hit is logged
\* and accumulated
Probe ==
    /\ pc = "probe"
    /\ \E r \in ProcResults(down_rs_timeout, Listings) :
         LET p == Candidate(words[wi], extensions, ei)
             call == run_rsync(p, r)
         IN /\ path' = p
            /\ probed' = Append(probed, [path |-> p, word |-> wi, ext |-> ei,
                                         found |-> Truthy(call.ret)])
            /\ IF call.raised
               THEN /\ pc' = "except_Exception"
                    /\ logged' = << Line("unknown_error", << >>) >>
                    /\ UNCHANGED << output, found_paths >>
               ELSE /\ output' = call.ret
                    /\ found_paths' = Accumulate(found_paths, p, call.ret)
                    /\ logged' = call.log \o (IF Truthy(call.ret)
                                              THEN << Line("found", << p >>) >> ELSE << >>)
                    /\ pc' = IF ShouldFetch(call.ret, download) THEN "fetch" ELSE "update"
    /\ UNCHANGED << Config, words, origin, wi, ei, result, total, pbar,
                    fetched, sleeps, saves, out_file >>

\* Fetch that takes back a found path whose download failed or timed out
FetchDropsFailed ==
    /\ pc = "fetch"
    /\ \E mkdirOk \in BOOLEAN, r \in ProcResults(down_rs_timeout, { << >> }) :
         LET call == download_rsync(path, mkdirOk, r)
         IN /\ mkdirOk \/ r.status = "ok"
            /\ fetched' = Append(fetched, path)
            /\ IF call.raised
               THEN /\ pc' = "except_Exception"
                    /\ logged' = << Line("unknown_error", << >>) >>
                    /\ UNCHANGED found_paths
               ELSE /\ pc' = "update"
                    /\ logged' = call.log
                    /\ found_paths' = IF r.status = "ok" THEN found_paths
                                      ELSE SubSeq(found_paths, 1, Len(found_paths) - 1)
    /\ UNCHANGED << Config, words, origin, wi, ei, path, result, output, total, pbar,
                    probed, sleeps, saves, out_file >>

\* Fetch followed by a continue: the progress update and the pause are skipped
FetchThenContinue ==
    /\ pc = "fetch"
    /\ \E mkdirOk \in BOOLEAN, r \in ProcResults(down_rs_timeout, { << >> }) :
         LET call == download_rsync(path, mkdirOk, r)
             nxt == NextPos(wi, ei, extensions)
         IN /\ mkdirOk \/ r.status = "ok"
            /\ fetched' = Append(fetched, path)
            /\ IF call.raised
               THEN /\ pc' = "except_Exception"
                    /\ logged' = << Line("unknown_error", << >>) >>
                    /\ UNCHANGED << wi, ei >>
               ELSE /\ pc' = IF nxt[1] > Len(words) THEN "save" ELSE "probe"
                    /\ wi' = nxt[1] /\ ei' = nxt[2]
                    /\ logged' = call.log
    /\ UNCHANGED << Config, words, origin, path, result, output, found_paths, total,
                    pbar, probed, sleeps, saves, out_file >>

\* lines 147-148 (158-159)
Fetch ==
    /\ pc = "fetch"
    /\ \E mkdirOk \in BOOLEAN, r \in ProcResults(down_rs_timeout, { << >> }) :
         LET call == download_rsync(path, mkdirOk, r)
         IN /\ mkdirOk \/ r.status = "ok"
            /\ fetched' = Append(fetched, path)
            /\ IF call.raised
               THEN /\ pc' = "except_Exception"
                    /\ logged' = << Line("unknown_error", << >>) >>
               ELSE /\ pc' = "update"
                    /\ logged' = call.log
    /\ UNCHANGED << Config, Locals, probed, sleeps, saves, out_file >>

\* the end of an iteration: the next candidate, or the end of the loops
NextIteration ==
    LET nxt == NextPos(wi, ei, extensions)
    IN /\ wi' = nxt[1]
       /\ ei' = nxt[2]
       /\ pc' = IF nxt[1] > Len(words) THEN "save" ELSE "probe"

\* Update that pauses only after a hit
UpdatePausesAfterHit ==
    /\ pc = "update"
    /\ pbar' = pbar + 1
    /\ logged' = << >>
    /\ IF down_rs_delay # 0 /\ Truthy(output)
       THEN pc' = "sleep" /\ UNCHANGED << wi, ei >>
       ELSE NextIteration
    /\ UNCHANGED << Config, words, origin, path, result, output, found_paths, total,
                    Effects >>

\* lines 149-150 (160-161)
Update ==
    /\ pc = "update"
    /\ pbar' = pbar + 1
    /\ logged' = << >>
    /\ IF down_rs_delay # 0
       THEN pc' = "sleep" /\ UNCHANGED << wi, ei >>
       ELSE NextIteration
    /\ UNCHANGED << Config, words, origin, path, result, output, found_paths, total,
                    Effects >>

\* line 151 (162)
Sleep ==
    /\ pc = "sleep"
    /\ sleeps' = sleeps + 1
    /\ logged' = << >>
    /\ NextIteration
    /\ UNCHANGED << Config, words, origin, path, result, output, found_paths, total,
                    pbar, probed, fetched, saves, out_file >>

\* Save without the test of found_paths at line 164
SaveWithoutHits ==
    /\ pc = "save"
    /\ IF output_file # None
       THEN \E openOk \in BOOLEAN :
              LET call == save_results(found_paths, output_file, output_format,
                                       openOk, out_file)
              IN /\ saves' = Append(saves, found_paths)
                 /\ out_file' = call.file
                 /\ IF call.raised
                    THEN /\ pc' = "except_FileNotFoundError"
                         /\ logged' = << Line("wordlist_not_found", << >>) >>
                    ELSE /\ pc' = "done"
                         /\ logged' = call.log \o << Line("complete", << >>) >>
       ELSE /\ pc' = "done"
            /\ logged' = << Line("complete", << >>) >>
            /\ UNCHANGED << saves, out_file >>
    /\ UNCHANGED << Config, Locals, probed, fetched, sleeps >>

\* lines 164-167, 169-170
Save ==
    /\ pc = "save"
    /\ IF found_paths # << >> /\ output_file # None
       THEN \E openOk \in BOOLEAN :
              LET call == save_results(found_paths, output_file, output_format,
                                       openOk, out_file)
              IN /\ saves' = Append(saves, found_paths)
                 /\ out_file' = call.file
                 /\ IF call.raised
                    THEN /\ pc' = "except_FileNotFoundError"
                         /\ logged' = << Line("wordlist_not_found", << >>) >>
                    ELSE /\ pc' = "done"
                         /\ logged' = call.log \o << Line("complete", << >>) >>
       ELSE /\ pc' = "done"
            /\ logged' = << Line("complete", << >>) >>
            /\ UNCHANGED << saves, out_file >>
    /\ UNCHANGED << Config, Locals, probed, fetched, sleeps >>

\* Interrupt that flushes the paths found so far before it returns
InterruptFlushes ==
    /\ pc \in { "start", "probe", "fetch", "update", "sleep", "save", "blocked" }
    /\ pc' = "except_KeyboardInterrupt"
    /\ logged' = << Line("interrupted", << >>) >>
    /\ IF found_paths # << >> /\ output_file # None
       THEN /\ saves' = Append(saves, found_paths)
            /\ out_file' = save_results(found_paths, output_file, output_format,
                                        TRUE, out_file).file
       ELSE UNCHANGED << saves, out_file >>
    /\ UNCHANGED << Config, Locals, probed, fetched, sleeps >>

\* lines 171-172: KeyboardInterrupt anywhere inside main's try block
Interrupt ==
    /\ pc \in { "start", "probe", "fetch", "update", "sleep", "save", "blocked" }
    /\ pc' = "except_KeyboardInterrupt"
    /\ logged' = << Line("interrupted", << >>) >>
    /\ UNCHANGED << Config, Locals, Effects >>

\* Blocks with a timeout that subprocess.run does not enforce
BlocksDespiteTimeout ==
    /\ pc \in { "probe", "fetch" }
    /\ pc' = "blocked"
    /\ logged' = << >>
    /\ UNCHANGED << Config, Locals, Effects >>

\* lines 32-40 and 61-69 with timeout=None: subprocess.run waits for a command
\* that never exits, and main waits with it
Blocks ==
    /\ pc \in { "probe", "fetch" }
    /\ down_rs_timeout = None
    /\ pc' = "blocked"
    /\ logged' = << >>
    /\ UNCHANGED << Config, Locals, Effects >>

Next ==
    \/ ReadFails
    \/ ReadWordlist
    \/ Probe
    \/ Fetch
    \/ Update
    \/ Sleep
    \/ Save
    \/ Blocks
    \/ Interrupt

Spec == Init /\ [][Next]_vars

\* the steps main takes by itself: the interpreter runs main to its end, and
\* every external command that is not stuck returns
Progress == ReadFails \/ ReadWordlist \/ Probe \/ Fetch \/ Update \/ Sleep \/ Save

SpecLive == Spec /\ WF_vars(Progress)

-----------------------------------------------------------------------------
(* run_rsync on its own: one call, on any path and any subprocess outcome *)

FixedConfig ==
    /\ wordlist_file = [state |-> "ok", lines |-> << >>]
    /\ extensions = << >> /\ exclude = << >> /\ download = FALSE
    /\ down_rs_delay = 0

InitProbe ==
    /\ FixedConfig
    /\ output_file = None /\ output_format = "plain"
    /\ down_rs_timeout \in { None, "5.0" }
    /\ words = << >> /\ origin = << >> /\ wi = 1 /\ ei = 1
    /\ found_paths = << >> /\ total = 0 /\ pbar = 0
    /\ probed = << >> /\ fetched = << >> /\ sleeps = 0 /\ saves = << >>
    /\ out_file = NoFile /\ logged = << >>
    /\ pc = "call_run_rsync"
    /\ path \in { <<"a">>, <<"a", ".", "b">> }
    /\ result \in ProcResults(down_rs_timeout, SeqsUpTo(OutChars, MaxOut))
    /\ output = NoneStr

CallRunRsync ==
    /\ pc = "call_run_rsync"
    /\ LET call == run_rsync(path, result)
       IN /\ pc' = IF call.raised THEN "run_rsync_raised" ELSE "run_rsync_returned"
          /\ output' = call.ret
          /\ logged' = call.log
    /\ UNCHANGED << Config, words, origin, wi, ei, path, result, found_paths, total,
                    pbar, Effects >>

SpecProbe == InitProbe /\ [][CallRunRsync]_vars

-----------------------------------------------------------------------------
(* save_results on its own: one call, on any arguments *)

OldFile == [exists |-> TRUE, rows |-> << <<"o", "l", "d">> >>]

InitSave ==
    /\ FixedConfig
    /\ down_rs_timeout = None
    /\ words = << >> /\ origin = << >> /\ wi = 1 /\ ei = 1
    /\ path = << >> /\ result = NoResult /\ output = NoneStr
    /\ total = 0 /\ pbar = 0
    /\ probed = << >> /\ fetched = << >> /\ sleeps = 0 /\ saves = << >>
    /\ logged = << >>
    /\ pc = "call_save_results"
    /\ found_paths \in SeqsUpTo({ <<"a">>, <<"a", ".", "b">> }, MaxWords)
    /\ output_file \in { None, "out" }
    /\ output_format \in Formats \cup { "xml" }
    /\ out_file \in { NoFile, OldFile }

CallSaveResults ==
    /\ pc = "call_save_results"
    /\ \E openOk \in BOOLEAN :
         LET call == save_results(found_paths, output_file, output_format, openOk, out_file)
         IN /\ pc' = IF call.raised THEN "save_results_raised" ELSE "save_results_returned"
            /\ out_file' = call.file
            /\ logged' = call.log
    /\ saves' = Append(saves, found_paths)
    /\ UNCHANGED << Config, Locals, probed, fetched, sleeps >>

SpecSave == InitSave /\ [][CallSaveResults]_vars

-----------------------------------------------------------------------------
(* Vocabulary of the properties *)

\* the nested expansion: entries outside, extensions inside
RECURSIVE Expansion(_, _)
Expansion(ws, exts) ==
    IF ws = << >> THEN << >>
    ELSE (IF exts = << >> THEN << Head(ws) >>
          ELSE [k \in 1..Len(exts) |-> Head(ws) \o exts[k]])
         \o Expansion(Tail(ws), exts)

ProbedPaths == [k \in 1..Len(probed) |-> probed[k].path]

IsPrefix(s, t) == Len(s) <= Len(t) /\ \A k \in 1..Len(s) : s[k] = t[k]

\* main is inside or past its loops
Enumerating == pc \in { "probe", "fetch", "update", "sleep", "save", "done" }

\* the loops have run to their end
EndOfWordlist == pc \in { "save", "done" }

Lines == wordlist_file.lines

\* line k of the wordlist contains an exclude substring
Excluded(k) == \E j \in 1..Len(exclude) : IsSubstr(exclude[j], Lines[k])

\* the number of variants of an entry
Variants == IF extensions # << >> THEN Len(extensions) ELSE 1

-----------------------------------------------------------------------------
(* C1 *)

\* C1: the paths handed to run_rsync are at every moment a prefix of the nested
\* expansion of the filtered entries (entries outside, extensions inside, the
\* entry alone without extensions), and the whole expansion once the loops have
\* ended: each element once, whatever the outcomes of the probes.
C1_ProbesAreTheExpansion ==
    /\ IsPrefix(ProbedPaths, Expansion(words, extensions))
    /\ EndOfWordlist => ProbedPaths = Expansion(words, extensions)

\* a finished run over two entries and two extensions, with probes of both kinds
C1_Witness ==
    /\ pc = "done"
    /\ Len(words) = 2 /\ Len(extensions) = 2 /\ Len(probed) = 4
    /\ \E j, k \in 1..4 : probed[j].found /\ ~probed[k].found

-----------------------------------------------------------------------------
(* C2 *)

\* C2: no candidate handed to run_rsync contains an exclude substring, also when
\* the substring lies in the extension or spans the entry and the extension.
C2_NoProbeContainsExclude ==
    \A k \in 1..Len(probed) :
        \A j \in 1..Len(exclude) : ~IsSubstr(exclude[j], probed[k].path)

-----------------------------------------------------------------------------
(* C3 *)

-----------------------------------------------------------------------------
(* C4 *)

HasNonSpace(t) == \E k \in 1..Len(t) : ~IsSpace(t[k])

\* C4 as claimed: run_rsync returns a hit exactly when the command succeeds with
\* stdout of length > 0.
C4_FoundIffNonEmptyOutput ==
    pc = "run_rsync_returned" =>
        (Truthy(output) <=> (result.status = "ok" /\ Len(result.stdout) > 0))

\* C4 as amended: run_rsync returns a hit exactly when the command succeeds and
\* its stdout holds a character that is not white space; the hit is the stdout
\* without its leading and trailing white space; a success with empty or blank
\* stdout, a failure and a timeout all return None.
C4_FoundIffNonBlankOutput ==
    pc = "run_rsync_returned" =>
        /\ Truthy(output) <=> (result.status = "ok" /\ HasNonSpace(result.stdout))
        /\ Truthy(output) =>
             /\ ~IsSpace(Head(output.text))
             /\ ~IsSpace(output.text[Len(output.text)])
             /\ IsSubstr(output.text, result.stdout)
        /\ ~Truthy(output) => output = NoneStr

\* a successful probe whose stdout is padded on both sides
C4_Witness ==
    /\ pc = "run_rsync_returned"
    /\ result.status = "ok"
    /\ result.stdout = <<" ", "x">>
    /\ output = SomeStr(<<"x">>)

-----------------------------------------------------------------------------
(* C5 *)

RECURSIVE FoundAmong(_)
FoundAmong(ps) ==
    IF ps = << >> THEN << >>
    ELSE (IF Head(ps).found THEN << Head(ps).path >> ELSE << >>) \o FoundAmong(Tail(ps))

HasLine(msg) == \E k \in 1..Len(logged) : logged[k].msg = msg

C5_FoundIsTheHits == found_paths = FoundAmong(probed)

C5_OnlyAppended ==
    /\ found_paths' = found_paths \/ \E p \in { path' } : found_paths' = Append(found_paths, p)
    /\ (pc = "probe" /\ pc' \notin { "except_KeyboardInterrupt", "blocked" }
          /\ (HasLine("rsync_timeout")' \/ HasLine("rsync_failed")' \/ logged' = << >>))
         => (found_paths' = found_paths /\ pc' = "update")

\* C5: found_paths is at every moment the probed candidates whose probe returned
\* a hit, in the order of the probes, duplicates included; it changes only by
\* an append of the current candidate; a probe that timed out, failed or came
\* back empty appends nothing and main goes on to the progress update.
C5_FoundPathsGrowInOrder == []C5_FoundIsTheHits /\ [][C5_OnlyAppended]_vars

\* a finished run in which the same entry was found twice and another probe missed
C5_Witness ==
    /\ pc = "done"
    /\ Len(found_paths) >= 2 /\ found_paths[1] = found_paths[2]
    /\ \E k \in 1..Len(probed) : ~probed[k].found

-----------------------------------------------------------------------------
(* C6 *)

\* C6: no failure of a probe or of a fetch ends the run: main reaches its
\* catch-all handler only before the first probe.
C6_NoProbeOrFetchFailureAborts == pc = "except_Exception" => probed = << >>

-----------------------------------------------------------------------------
(* C7 *)

ReadFailed == wordlist_file.state # "ok" /\ pc \notin { "start", "except_KeyboardInterrupt" }

NothingDone ==
    /\ probed = << >> /\ fetched = << >> /\ saves = << >>
    /\ sleeps = 0 /\ pbar = 0 /\ out_file = NoFile

\* C7 as claimed: every failure to read the wordlist ends the run with the
\* missing-wordlist message, nothing probed, fetched or written.
C7_ReadFailureIsMissingWordlist ==
    ReadFailed =>
        /\ logged = << Line("wordlist_not_found", << >>) >>
        /\ NothingDone

\* C7 as amended: every failure to read the wordlist ends the run before the
\* enumeration, nothing probed, fetched or written; the message is the
\* missing-wordlist one exactly when the file does not exist, and the
\* unknown-error one for any other failure.
C7_ReadFailureAborts ==
    ReadFailed =>
        /\ NothingDone
        /\ pc \in { "except_FileNotFoundError", "except_Exception" }
        /\ wordlist_file.state = "missing" =>
             logged = << Line("wordlist_not_found", << >>) >>
        /\ wordlist_file.state # "missing" =>
             logged = << Line("unknown_error", << >>) >>

\* the wordlist exists and cannot be read, and main has returned
C7_Witness ==
    /\ wordlist_file.state = "unreadable"
    /\ pc = "except_Exception"
    /\ logged = << Line("unknown_error", << >>) >>

-----------------------------------------------------------------------------
(* C8 *)

Last(s) == s[Len(s)]

\* C8: download_rsync is called only on the candidate whose probe has just
\* returned a hit, and only with download set; without download it is never
\* called; with download the calls are the found paths, one each, in order, so
\* that at completion there are as many calls as found paths.
C8_FetchOnlyFoundAndEnabled ==
    /\ IsPrefix(fetched, found_paths)
    /\ ~download => fetched = << >>
    /\ pc = "fetch" =>
         /\ download
         /\ Last(probed).found /\ Last(probed).path = path
         /\ found_paths = Append(fetched, path)
    /\ (download /\ pc \in { "probe", "update", "sleep", "save", "done" }) =>
         fetched = found_paths

\* a finished run with download set, two hits fetched and a miss
C8_Witness ==
    /\ pc = "done" /\ download
    /\ Len(fetched) = 2
    /\ \E k \in 1..Len(probed) : ~probed[k].found

-----------------------------------------------------------------------------
(* C9 *)

SaveIsNoOp == out_file' = out_file /\ logged' = << >> /\ pc' = "save_results_returned"

\* C9 as claimed: a call of save_results without an output path, or with no
\* found paths, leaves the output file as it was and logs nothing.
C9_NoOpWithoutPathOrPaths ==
    [][(output_file = None \/ found_paths = << >>) => SaveIsNoOp]_vars

\* C9 as amended: a call of save_results without an output path leaves the
\* output file as it was and logs nothing, in every format and for every
\* found_paths; a call with an output path and no found paths is not a no-op:
\* it logs the confirmation line and, in a supported format whose open()
\* succeeds, creates or truncates the file and writes the empty serialization.
C9_NoOpWithoutPath ==
    /\ [][output_file = None => SaveIsNoOp]_vars
    /\ [][(output_file # None /\ found_paths = << >> /\ pc' = "save_results_returned")
            => /\ logged' # << >>
               /\ output_format \in Formats =>
                    (out_file'.exists /\ out_file'.rows = Serialize(<< >>, output_format))]_vars

\* save_results has returned from a call without an output path, on found paths
\* and an output file that exists
C9_Witness ==
    /\ pc = "save_results_returned"
    /\ output_file = None
    /\ found_paths # << >>
    /\ out_file = OldFile
    /\ logged = << >>

-----------------------------------------------------------------------------
(* C10 *)

Interrupted == pc = "except_KeyboardInterrupt"

C10_NothingAfterInterrupt ==
    /\ Interrupted' =>
         /\ probed' = probed /\ fetched' = fetched /\ sleeps' = sleeps
         /\ saves' = saves /\ out_file' = out_file /\ found_paths' = found_paths
    /\ ~Interrupted

\* C10: the step that takes the interruption probes, fetches, pauses and writes
\* nothing; after it main takes no further step; in the interrupted run
\* save_results was never called and the output file was never written,
\* whatever had been found.
C10_InterruptAborts ==
    /\ [](Interrupted => (saves = << >> /\ out_file = NoFile))
    /\ [][C10_NothingAfterInterrupt]_vars

\* interrupted in the middle of the enumeration, with a path found and an
\* output path configured
C10_Witness ==
    /\ Interrupted
    /\ found_paths # << >> /\ output_file # None
    /\ Len(probed) >= 2 /\ Len(probed) < total
    /\ fetched # << >> /\ sleeps > 0

-----------------------------------------------------------------------------
(* C11 *)

\* a step of Fetch in which download_rsync returned
FetchReturns == pc = "fetch" /\ pc' \notin { "except_KeyboardInterrupt", "except_Exception", "blocked" }

FetchLines == { "download_ok", "download_failed", "download_timeout" }

C11_AfterFetch ==
    FetchReturns =>
        /\ Len(logged') = 1 /\ logged'[1].msg \in FetchLines
        /\ found_paths' = found_paths /\ Last(found_paths') = path
        /\ pbar' = pbar
        /\ pc' = "update"
        /\ UNCHANGED << wi, ei, words, output, probed, sleeps, saves, out_file >>

\* C11: a fetch that fails or times out logs its line, and leaves found_paths
\* (the fetched candidate still last in it), the progress counter and the loop
\* position as they were; main goes on to the progress update, in the same
\* state as after a fetch that succeeded but for the line logged.
C11_FailedFetchChangesNothing == [][C11_AfterFetch]_vars

\* the fetch of the second candidate has just timed out
C11_Witness ==
    /\ pc = "update"
    /\ HasLine("download_timeout")
    /\ Len(probed) = 2
    /\ Last(found_paths) = path

-----------------------------------------------------------------------------
(* C12 *)

C12_UnsupportedStep ==
    (pc = "call_save_results" /\ output_file # None /\ output_format \notin Formats) =>
        /\ HasLine("unsupported_format")'
        /\ out_file' = out_file
        /\ pc' = "save_results_returned"

\* C12: a call of save_results with an output path and a format other than
\* plain, csv and json logs the unsupported-format error, leaves the output
\* file as it was (absent, or with its old content), and returns.
C12_UnsupportedFormatWritesNothing == [][C12_UnsupportedStep]_vars

\* save_results has returned from a call with the format xml on a file that exists
C12_Witness ==
    /\ pc = "save_results_returned"
    /\ output_file # None /\ output_format = "xml"
    /\ found_paths # << >>
    /\ out_file = OldFile

-----------------------------------------------------------------------------
(* C13 *)

ErrorLines == { "rsync_failed", "rsync_timeout", "download_failed", "download_timeout" }

Names(line, p) == \E j \in 1..Len(line.args) : line.args[j] = p

\* C13: every line logged for a failed or timed-out probe or fetch names the
\* path of the candidate, and there is one such line per error.
C13_ErrorLinesNameThePath ==
    pc \in { "fetch", "update" } =>
        /\ Cardinality({ k \in 1..Len(logged) : logged[k].msg \in ErrorLines }) <= 1
        /\ \A k \in 1..Len(logged) : logged[k].msg \in ErrorLines => Names(logged[k], path)

-----------------------------------------------------------------------------
(* C14 *)

\* C14: with a delay there is one pause after every candidate, whatever its
\* outcome: before each probe and at the end of the loops the pauses are as many
\* as the probes, and during the pause one fewer; without a delay there is
\* never a pause.
C14_OnePausePerCandidate ==
    /\ down_rs_delay = 0 => (sleeps = 0 /\ pc # "sleep")
    /\ down_rs_delay # 0 =>
         /\ pc \in { "probe", "save", "done" } => sleeps = Len(probed)
         /\ pc \in { "fetch", "update", "sleep" } => sleeps = Len(probed) - 1

\* a finished run with a delay, four candidates, hits and misses, and a fetch
C14_Witness ==
    /\ pc = "done" /\ down_rs_delay # 0
    /\ sleeps = 4 /\ Len(probed) = 4
    /\ fetched # << >>
    /\ \E k \in 1..4 : ~probed[k].found

-----------------------------------------------------------------------------
(* C15 *)

Aborts == { "except_KeyboardInterrupt", "except_Exception", "blocked" }

\* where each candidate stands at each position of the loop body
C15_Positions ==
    /\ pc = "probe" => (Len(probed) = pbar /\ (download => fetched = found_paths))
    /\ pc = "fetch" =>
         /\ Len(probed) = pbar + 1
         /\ Last(probed).found /\ Last(probed).path = path
         /\ found_paths = Append(fetched, path)
    /\ pc = "update" => (Len(probed) = pbar + 1 /\ (download => fetched = found_paths))
    /\ pc = "sleep" => (Len(probed) = pbar /\ sleeps = pbar - 1)

\* which step does what, and which position follows which
C15_Order ==
    /\ probed' # probed => pc = "probe"
    /\ found_paths' # found_paths => (pc = "probe" /\ probed' # probed)
    /\ fetched' # fetched => pc = "fetch"
    /\ pbar' # pbar => pc = "update"
    /\ sleeps' # sleeps => pc = "sleep"
    /\ pc = "probe" => pc' \in { "fetch", "update" } \cup Aborts
    /\ pc = "fetch" => pc' \in { "update" } \cup Aborts
    /\ pc = "update" => pc' \in { "sleep", "probe", "save" } \cup Aborts
    /\ pc = "sleep" => pc' \in { "probe", "save" } \cup Aborts
    /\ pc' = "fetch" => download
    /\ pc' = "sleep" => down_rs_delay # 0

\* C15: for each candidate the steps come in the order probe (with the append of
\* a hit), fetch (of a hit, with download), progress update, pause (with a
\* delay), and the next probe starts only after them: a fetch is always of the
\* candidate probed last, and before a probe every probe has had its update,
\* its fetch and its pause.
C15_StrictlySequential == []C15_Positions /\ [][C15_Order]_vars

\* in the pause after the second candidate, both candidates found and fetched
C15_Witness ==
    /\ pc = "sleep"
    /\ Len(probed) = 2 /\ Len(fetched) = 2 /\ pbar = 2 /\ sleeps = 1

-----------------------------------------------------------------------------
(* C16 *)

\* C16 as claimed: in every state of the enumeration, found_paths is no longer
\* than the progress counter, the counter is at most the total and equals the
\* number of probes that have returned.
C16_CounterIsTheProbes ==
    Enumerating =>
        /\ Len(found_paths) <= pbar
        /\ pbar <= total
        /\ pbar = Len(probed)

C16_Counts ==
    Enumerating =>
        /\ total = Len(words) * Variants
        /\ total <= Len(Lines) * Variants
        /\ pbar <= total
        /\ pc \in { "probe", "sleep", "save", "done" } =>
             (pbar = Len(probed) /\ Len(found_paths) <= pbar)
        /\ pc \in { "fetch", "update" } =>
             (pbar = Len(probed) - 1 /\ Len(found_paths) <= pbar + 1)
        /\ pc = "done" => pbar = total

C16_Steps ==
    /\ pbar' = pbar \/ (pbar' = pbar + 1 /\ pc = "update")
    /\ Enumerating => total' = total
    /\ probed' # probed => pbar < total

\* C16 as amended: the total is fixed when the wordlist has been filtered, at
\* |filtered entries| x max(1, |extensions|), at most |entries| x max(1,
\* |extensions|), and no probe starts with the counter at the total. The counter
\* advances by one per candidate whatever the outcome, after the append and the
\* fetch: before each probe, in the pause and at the end it equals the number
\* of probes returned and found_paths is no longer than it; between the return
\* of a probe and the update it is one behind the probes, and found_paths may be
\* one longer than it. At normal completion it equals the total.
C16_CounterFollowsTheProbes == []C16_Counts /\ [][C16_Steps]_vars

\* a finished run with an entry filtered out and two variants of the other
C16_Witness ==
    /\ pc = "done"
    /\ Len(words) < Len(Lines) /\ Len(extensions) = 2
    /\ pbar = 2 /\ total = 2
    /\ Len(found_paths) = 2

-----------------------------------------------------------------------------
(* C17 *)

Aborted == pc \in { "except_KeyboardInterrupt", "except_Exception", "blocked" }

-----------------------------------------------------------------------------
(* C18 *)

Terminal ==
    pc \in { "done", "except_FileNotFoundError", "except_KeyboardInterrupt",
             "except_Exception" }

Blocked == pc = "blocked"

C18_BlockedStaysBlocked ==
    Blocked => (pc' = "except_KeyboardInterrupt" /\ probed' = probed /\ fetched' = fetched)

\* C18: a run in which no probe and no fetch waits for ever reaches a terminal
\* state (the end of main, or one of its except clauses); with a timeout no
\* probe or fetch waits for ever, so every such run terminates; a run that
\* completes has made exactly |filtered entries| x max(1, |extensions|) probes;
\* without a timeout a probe or a fetch may wait for ever, and then no later
\* candidate is probed or fetched: only an interruption ends the run.
C18_Termination ==
    /\ <>(Terminal \/ Blocked)
    /\ (down_rs_timeout # None) => <>Terminal
    /\ [](Blocked => down_rs_timeout = None)
    /\ [](pc = "done" => Len(probed) = Len(words) * Variants)
    /\ [][C18_BlockedStaysBlocked]_vars

\* a run with a timeout has completed after four probes
C18_Witness ==
    /\ pc = "done"
    /\ down_rs_timeout # None
    /\ Len(words) = 2 /\ Len(extensions) = 2 /\ Len(probed) = 4

-----------------------------------------------------------------------------
(* C19 *)

\* C19: the missing-wordlist message is logged only when the wordlist could not
\* be opened, hence in runs that probed, fetched and wrote nothing.
C19_MissingWordlistOnlyForWordlist ==
    HasLine("wordlist_not_found") =>
        /\ wordlist_file.state = "missing"
        /\ probed = << >> /\ fetched = << >> /\ saves = << >>

-----------------------------------------------------------------------------
(* C20 *)

\* C20: a call of save_results logs the confirmation line exactly when it has
\* written the output file.
C20_ConfirmationIffWritten ==
    [][HasLine("saved")' <=> (out_file' # out_file)]_vars

====
